---- MODULE Spec2Model ----
(***************************************************************************)
(* The in-memory fixture of package mock (MockClient): five tables, four   *)
(* error overrides, the capability-contract operations, the seeding        *)
(* surface and the assertion surface, for serialized calls.                *)
(***************************************************************************)
EXTENDS Integers, Sequences, FiniteSets, TLC

(***************************************************************************)
(* Bounds of the exploration.                                              *)
(***************************************************************************)
\* The number of state-changing calls (seeding, override setting and
\* successful writes) explored; queries and failing calls are not counted.
MaxWrites == 2

(***************************************************************************)
(* Values.                                                                 *)
(***************************************************************************)
\* A Go nil error.
Nil == "nil"
\* errors.New("not found")
NotFound == "not found"
\* scm.ErrNotSupported
ErrNotSupported == "not supported"
\* The error a test injects through an override field.
ErrValues == {"boom"}

\* Argument strings.  "a:a" holds the separator that key() joins with, so
\* that <<"a:a", "a">> and <<"a", "a:a">> are different arguments.
Repos == {"a", "a:a"}
Paths == {"a", "a:a"}
Branches == {"a", "a:a"}
Refs == {"a"}
\* The paths UpdateFile, DeleteFile and GetUpdatedContents are called with.
UpdatePaths == {"a"}
Shas == {"a"}
\* Byte contents: empty and "hello".
Hello == <<104, 101, 108, 108, 111>>
Bodies == {<< >>, Hello}
\* Pull-request inputs (*scm.PullRequestInput), differing in one field.
Inputs == {[Title |-> "t1", Head |-> "h", Base |-> "main", Body |-> "b"],
           [Title |-> "t2", Head |-> "h", Base |-> "main", Body |-> "b"]}

(***************************************************************************)
(* key: strings.Join(s, ":").                                              *)
(***************************************************************************)
RECURSIVE Join(_, _)
Join(s, sep) ==
    IF Len(s) = 0 THEN ""
    ELSE IF Len(s) = 1 THEN s[1]
    ELSE s[1] \o sep \o Join(Tail(s), sep)

key(s) == Join(s, ":")

(***************************************************************************)
(* bytesSha1: SHA-1 of the bytes, printed with %x.  A 32-bit word is the   *)
(* pair <<high 16 bits, low 16 bits>>.                                     *)
(***************************************************************************)
RECURSIVE Xor16(_, _)
Xor16(x, y) ==
    IF x = 0 THEN y
    ELSE IF y = 0 THEN x
    ELSE (((x % 2) + (y % 2)) % 2) + 2 * Xor16(x \div 2, y \div 2)

RECURSIVE And16(_, _)
And16(x, y) ==
    IF x = 0 \/ y = 0 THEN 0
    ELSE ((x % 2) * (y % 2)) + 2 * And16(x \div 2, y \div 2)

Not16(x) == 65535 - x

WXor(u, v) == <<Xor16(u[1], v[1]), Xor16(u[2], v[2])>>
WAnd(u, v) == <<And16(u[1], v[1]), And16(u[2], v[2])>>
WNot(u) == <<Not16(u[1]), Not16(u[2])>>
\* u | v for words; x | y = (x ^ y) + (x & y) bitwise.
WOr(u, v) == <<Xor16(u[1], v[1]) + And16(u[1], v[1]),
               Xor16(u[2], v[2]) + And16(u[2], v[2])>>

\* Addition modulo 2^32.
WAdd(u, v) ==
    LET lo == u[2] + v[2]
    IN  <<(u[1] + v[1] + (lo \div 65536)) % 65536, lo % 65536>>

\* Rotation to the left by n bits, 0 < n < 16.
RotlSmall(u, n) ==
    LET p == 2 ^ n
        q == 2 ^ (16 - n)
    IN  <<((u[1] * p) % 65536) + (u[2] \div q),
          ((u[2] * p) % 65536) + (u[1] \div q)>>

Rotl(u, n) ==
    IF n = 16 THEN <<u[2], u[1]>>
    ELSE IF n < 16 THEN RotlSmall(u, n)
    ELSE RotlSmall(<<u[2], u[1]>>, n - 16)

\* The padded message: the bytes, 0x80, zeros, the bit length on 8 bytes.
Sha1Pad(b) ==
    LET L == Len(b)
        z == (119 - L) % 64
        bits == 8 * L
    IN  b \o <<128>> \o [i \in 1..z |-> 0]
          \o <<0, 0, 0, 0,
               (bits \div 16777216) % 256, (bits \div 65536) % 256,
               (bits \div 256) % 256, (bits % 256)>>

\* The t-th (0-based) big-endian word of a 64-byte block.
BlockWord(blk, t) ==
    <<blk[4 * t + 1] * 256 + blk[4 * t + 2],
      blk[4 * t + 3] * 256 + blk[4 * t + 4]>>

\* The message schedule: w holds W[0..Len(w)-1], extended to 80 words.
RECURSIVE Sha1Schedule(_)
Sha1Schedule(w) ==
    IF Len(w) = 80 THEN w
    ELSE LET n == Len(w) + 1
             x == WXor(WXor(w[n - 3], w[n - 8]), WXor(w[n - 14], w[n - 16]))
         IN  Sha1Schedule(Append(w, Rotl(x, 1)))

Sha1F(t, b, c, d) ==
    IF t < 20 THEN WOr(WAnd(b, c), WAnd(WNot(b), d))
    ELSE IF t < 40 THEN WXor(WXor(b, c), d)
    ELSE IF t < 60 THEN WOr(WOr(WAnd(b, c), WAnd(b, d)), WAnd(c, d))
    ELSE WXor(WXor(b, c), d)

Sha1K(t) ==
    IF t < 20 THEN <<23170, 31129>>
    ELSE IF t < 40 THEN <<28377, 60321>>
    ELSE IF t < 60 THEN <<36635, 48348>>
    ELSE <<51810, 49622>>

\* One round on the working variables s = <<a, b, c, d, e>>.
Sha1Round(s, w, t) ==
    LET tmp == WAdd(WAdd(WAdd(Rotl(s[1], 5), Sha1F(t, s[2], s[3], s[4])),
                         WAdd(s[5], Sha1K(t))), w[t + 1])
    IN  <<tmp, s[1], Rotl(s[2], 30), s[3], s[4]>>

\* Rounds t..79.  (Len(s) is read first so that each round's result is a
\* value before the next round starts.)
RECURSIVE Sha1Rounds(_, _, _)
Sha1Rounds(s, w, t) ==
    IF Len(s) = 5 /\ t < 80 THEN Sha1Rounds(Sha1Round(s, w, t), w, t + 1)
    ELSE s

\* The digest state after the blocks of p from the i-th (0-based) on.
RECURSIVE Sha1Blocks(_, _, _)
Sha1Blocks(h, p, i) ==
    IF 64 * i >= Len(p) THEN h
    ELSE LET blk == SubSeq(p, 64 * i + 1, 64 * i + 64)
             w == Sha1Schedule([t \in 1..16 |-> BlockWord(blk, t - 1)])
             s == Sha1Rounds(h, w, 0)
         IN  Sha1Blocks([j \in 1..5 |-> WAdd(h[j], s[j])], p, i + 1)

Sha1Init ==
    <<<<26437, 8961>>, <<61389, 43913>>, <<39098, 56574>>,
      <<4146, 21622>>, <<50130, 57840>>>>

\* fmt.Sprintf("%x", bs): two lowercase hexadecimal digits per byte.
HexDigit(n) ==
    <<"0", "1", "2", "3", "4", "5", "6", "7",
      "8", "9", "a", "b", "c", "d", "e", "f">>[n + 1]

Hex16(x) ==
    HexDigit(x \div 4096) \o HexDigit((x \div 256) % 16)
      \o HexDigit((x \div 16) % 16) \o HexDigit((x % 16))

RECURSIVE HexWords(_)
HexWords(ws) ==
    IF Len(ws) = 0 THEN ""
    ELSE Hex16(ws[1][1]) \o Hex16(ws[1][2]) \o HexWords(Tail(ws))

Sha1Hex(b) == HexWords(Sha1Blocks(Sha1Init, Sha1Pad(b), 0))

\* The digests of the contents the model uses, computed once.
Sha1OfBodies == [b \in Bodies |-> Sha1Hex(b)]

bytesSha1(b) == Sha1OfBodies[b]

\* The previousSHA arguments of UpdateFile and DeleteFile: one that is the
\* revision of no content, and the revision of "hello".
PrevSHAs == {"wrongsha", bytesSha1(Hello)}

(***************************************************************************)
(* State.                                                                  *)
(***************************************************************************)
VARIABLES
    files,                \* map[string][]byte: key(repo, path, ref) -> content
    updatedFiles,         \* map[string][]byte: key(repo, path, branch) -> content
    createdBranches,      \* map[string]bool: key(repo, branch, sha) -> true
    branchHeads,          \* map[string]string: key(repo, branch) -> sha
    createdPullRequests,  \* map[string][]*PullRequestInput: repo -> inputs
    errs,                 \* the four override fields
    failed,               \* t.Failed(): an assertion method has called t.Fatalf
    last,                 \* the last call: operation, arguments, error, value
    seeded,               \* history: <<repo, path, ref>> -> content last seeded
    seededHeads,          \* history: <<repo, branch>> -> sha last seeded
    branchCalls,          \* history: <<repo, branch, sha>> of successful CreateBranch
    prCalls,              \* history: repo -> inputs of successful CreatePullRequest
    writes,               \* the number of state-changing calls so far
    mode,                 \* whether the callers serialize their calls
    calls,                \* goroutine -> its CreatePullRequest call in progress
    crashed               \* the runtime has stopped the program

tables == <<files, updatedFiles, createdBranches, branchHeads, createdPullRequests>>
history == <<seeded, seededHeads, branchCalls, prCalls>>
goroutines == <<mode, calls, crashed>>
vars == <<files, updatedFiles, createdBranches, branchHeads, createdPullRequests,
          errs, failed, last, seeded, seededHeads, branchCalls, prCalls, writes,
          mode, calls, crashed>>

\* A Go map: a function on the keys present.
EmptyMap == << >>
Has(m, k) == k \in DOMAIN m
Put(m, k, v) == [x \in DOMAIN m \cup {k} |-> IF x = k THEN v ELSE m[x]]

\* A pointer result: << >> is nil, <<v>> points to v.
NilPtr == << >>
Ptr(v) == <<v>>

\* The outcome of an assertion method: it returns, or t.Fatalf ends the test.
Pass == "pass"
Fatal == "fatal"

Call(op, args, err, val) == [op |-> op, args |-> args, err |-> err, val |-> val]

\* The goroutines that call the fixture in the concurrent specification.
Procs == {"g1", "g2"}
Modes == {"serialized", "concurrent"}

\* A goroutine that has not called yet.
IdleCall == [pc |-> "idle", repo |-> "", inp |-> << >>, existing |-> << >>,
             number |-> 0]

\* New
NewFixture ==
    /\ files = EmptyMap
    /\ updatedFiles = EmptyMap
    /\ createdBranches = EmptyMap
    /\ branchHeads = EmptyMap
    /\ createdPullRequests = EmptyMap
    /\ errs = [GetFileErr |-> Nil, UpdateFileErr |-> Nil,
               CreateBranchErr |-> Nil, CreatePullRequestErr |-> Nil]
    /\ failed = FALSE
    /\ last = Call("New", << >>, Nil, NilPtr)
    /\ seeded = EmptyMap
    /\ seededHeads = EmptyMap
    /\ branchCalls = {}
    /\ prCalls = [r \in Repos |-> << >>]
    /\ writes = 0
    /\ calls = [p \in Procs |-> IdleCall]
    /\ crashed = FALSE

\* One test goroutine: the calls are serialized.
Init == NewFixture /\ mode = "serialized"

\* t.Fatalf ends the test: no call follows a failed assertion.
Running == ~failed
CanWrite == Running /\ writes < MaxWrites

(***************************************************************************)
(* The capability contract.                                                *)
(***************************************************************************)
\* Mutant: a read that reflects the writes (updatedFiles is looked up first).
GetFileResult_ReadsWrites(repo, ref, path) ==
    IF errs.GetFileErr # Nil
    THEN [err |-> errs.GetFileErr, val |-> Ptr([Data |-> << >>, Sha |-> ""])]
    ELSE IF Has(updatedFiles, key(<<repo, path, ref>>))
    THEN LET b == updatedFiles[key(<<repo, path, ref>>)]
         IN  [err |-> Nil, val |-> Ptr([Data |-> b, Sha |-> bytesSha1(b)])]
    ELSE IF Has(files, key(<<repo, path, ref>>))
    THEN LET b == files[key(<<repo, path, ref>>)]
         IN  [err |-> Nil, val |-> Ptr([Data |-> b, Sha |-> bytesSha1(b)])]
    ELSE [err |-> NotFound, val |-> NilPtr]

\* GetFile's return values.
GetFileResult(repo, ref, path) ==
    IF errs.GetFileErr # Nil
    THEN [err |-> errs.GetFileErr, val |-> Ptr([Data |-> << >>, Sha |-> ""])]
    ELSE IF Has(files, key(<<repo, path, ref>>))
    THEN LET b == files[key(<<repo, path, ref>>)]
         IN  [err |-> Nil, val |-> Ptr([Data |-> b, Sha |-> bytesSha1(b)])]
    ELSE [err |-> NotFound, val |-> NilPtr]

GetFile ==
    \E repo \in Repos, ref \in Refs, path \in Paths :
        LET r == GetFileResult(repo, ref, path)
        IN  /\ Running
            /\ last' = Call("GetFile", <<repo, ref, path>>, r.err, r.val)
            /\ UNCHANGED <<goroutines, tables, errs, failed, history, writes>>

\* Mutant: the first write under a key wins.
UpdateFileResult_FirstWins(repo, branch, path, previousSHA, content) ==
    IF errs.UpdateFileErr # Nil
    THEN [err |-> errs.UpdateFileErr, updatedFiles |-> updatedFiles]
    ELSE IF Has(updatedFiles, key(<<repo, path, branch>>))
    THEN [err |-> Nil, updatedFiles |-> updatedFiles]
    ELSE [err |-> Nil,
          updatedFiles |-> Put(updatedFiles, key(<<repo, path, branch>>), content)]

\* Mutant: UpdateFile consults GetFile's override.
UpdateFileResult_WrongOverride(repo, branch, path, previousSHA, content) ==
    IF errs.GetFileErr # Nil
    THEN [err |-> errs.GetFileErr, updatedFiles |-> updatedFiles]
    ELSE [err |-> Nil,
          updatedFiles |-> Put(updatedFiles, key(<<repo, path, branch>>), content)]

\* Mutant: an update drops the contents recorded under every other key.
UpdateFileResult_ForgetsOthers(repo, branch, path, previousSHA, content) ==
    IF errs.UpdateFileErr # Nil
    THEN [err |-> errs.UpdateFileErr, updatedFiles |-> updatedFiles]
    ELSE [err |-> Nil,
          updatedFiles |-> Put(EmptyMap, key(<<repo, path, branch>>), content)]

\* UpdateFile's return value and the updatedFiles map it leaves.
UpdateFileResult(repo, branch, path, previousSHA, content) ==
    IF errs.UpdateFileErr # Nil
    THEN [err |-> errs.UpdateFileErr, updatedFiles |-> updatedFiles]
    ELSE [err |-> Nil,
          updatedFiles |-> Put(updatedFiles, key(<<repo, path, branch>>), content)]

UpdateFile ==
    \E repo \in Repos, branch \in Refs, path \in UpdatePaths,
       previousSHA \in PrevSHAs, content \in Bodies :
        LET r == UpdateFileResult(repo, branch, path, previousSHA, content)
        IN  /\ Running
            /\ r.err = Nil => writes < MaxWrites
            /\ updatedFiles' = r.updatedFiles
            /\ last' = Call("UpdateFile",
                            <<repo, branch, path, previousSHA, content>>,
                            r.err, NilPtr)
            /\ writes' = IF r.err = Nil THEN writes + 1 ELSE writes
            /\ UNCHANGED <<goroutines, files, createdBranches, branchHeads,
                           createdPullRequests, errs, failed, seeded,
                           seededHeads, branchCalls, prCalls>>

\* Mutant: DeleteFile reports success.
DeleteFileResult_Succeeds(repo, branch, path, previousSHA, content) == Nil

\* DeleteFile's return value.
DeleteFileResult(repo, branch, path, previousSHA, content) == ErrNotSupported

DeleteFile ==
    \E repo \in Repos, branch \in Refs, path \in UpdatePaths,
       previousSHA \in PrevSHAs, content \in Bodies :
        /\ Running
        /\ last' = Call("DeleteFile", <<repo, branch, path, previousSHA, content>>,
                        DeleteFileResult(repo, branch, path, previousSHA, content),
                        NilPtr)
        /\ UNCHANGED <<goroutines, tables, errs, failed, history, writes>>

\* strconv of a non-negative int, as the %d verb prints it.
RECURSIVE Decimal(_)
Decimal(n) ==
    IF n < 10 THEN HexDigit(n) ELSE Decimal(n \div 10) \o HexDigit(n % 10)

\* fmt.Sprintf("https://example.com/pull-request/%d", number)
PullRequestLink(number) == "https://example.com/pull-request/" \o Decimal(number)

\* Mutant: the input goes to the front of the repository's sequence.
CreatePullRequestResult_Prepends(repo, inp) ==
    IF errs.CreatePullRequestErr # Nil
    THEN [err |-> errs.CreatePullRequestErr, val |-> NilPtr,
          createdPullRequests |-> createdPullRequests]
    ELSE LET existing == IF Has(createdPullRequests, repo)
                         THEN createdPullRequests[repo] ELSE << >>
             appended == <<inp>> \o existing
             number == Len(appended)
         IN  [err |-> Nil,
              val |-> Ptr([Number |-> number, Link |-> PullRequestLink(number)]),
              createdPullRequests |-> Put(createdPullRequests, repo, appended)]

\* Mutant: an overridden call still writes the sequence it read back to the map.
CreatePullRequestResult_RecordsOnError(repo, inp) ==
    LET existing == IF Has(createdPullRequests, repo)
                    THEN createdPullRequests[repo] ELSE << >>
        appended == Append(existing, inp)
        number == Len(appended)
    IN  IF errs.CreatePullRequestErr # Nil
        THEN [err |-> errs.CreatePullRequestErr, val |-> NilPtr,
              createdPullRequests |-> Put(createdPullRequests, repo, existing)]
        ELSE [err |-> Nil,
              val |-> Ptr([Number |-> number, Link |-> PullRequestLink(number)]),
              createdPullRequests |-> Put(createdPullRequests, repo, appended)]

\* Mutant: the number counts the pull requests of every repository.
CreatePullRequestResult_GlobalNumber(repo, inp) ==
    IF errs.CreatePullRequestErr # Nil
    THEN [err |-> errs.CreatePullRequestErr, val |-> NilPtr,
          createdPullRequests |-> createdPullRequests]
    ELSE LET existing == IF Has(createdPullRequests, repo)
                         THEN createdPullRequests[repo] ELSE << >>
             appended == Append(existing, inp)
             others == {r \in DOMAIN createdPullRequests : r # repo}
             number == Len(appended) + Cardinality(others)
         IN  [err |-> Nil,
              val |-> Ptr([Number |-> number, Link |-> PullRequestLink(number)]),
              createdPullRequests |-> Put(createdPullRequests, repo, appended)]

\* CreatePullRequest's return values and the createdPullRequests map it leaves.
CreatePullRequestResult(repo, inp) ==
    IF errs.CreatePullRequestErr # Nil
    THEN [err |-> errs.CreatePullRequestErr, val |-> NilPtr,
          createdPullRequests |-> createdPullRequests]
    ELSE LET existing == IF Has(createdPullRequests, repo)
                         THEN createdPullRequests[repo] ELSE << >>
             appended == Append(existing, inp)
             number == Len(appended)
         IN  [err |-> Nil,
              val |-> Ptr([Number |-> number, Link |-> PullRequestLink(number)]),
              createdPullRequests |-> Put(createdPullRequests, repo, appended)]

CreatePullRequest ==
    \E repo \in Repos, inp \in Inputs :
        LET r == CreatePullRequestResult(repo, inp)
        IN  /\ Running
            /\ r.err = Nil => writes < MaxWrites
            /\ createdPullRequests' = r.createdPullRequests
            /\ last' = Call("CreatePullRequest", <<repo, inp>>, r.err, r.val)
            /\ prCalls' = IF r.err = Nil
                          THEN [prCalls EXCEPT ![repo] = Append(@, inp)]
                          ELSE prCalls
            /\ writes' = IF r.err = Nil THEN writes + 1 ELSE writes
            /\ UNCHANGED <<goroutines, files, updatedFiles, createdBranches, branchHeads,
                           errs, failed, seeded, seededHeads, branchCalls>>

\* Mutant: creating a branch that was already created is an error.
CreateBranchResult_RejectsDuplicate(repo, branch, sha) ==
    IF errs.CreateBranchErr # Nil
    THEN [err |-> errs.CreateBranchErr, createdBranches |-> createdBranches]
    ELSE IF Has(createdBranches, key(<<repo, branch, sha>>))
    THEN [err |-> "already exists", createdBranches |-> createdBranches]
    ELSE [err |-> Nil,
          createdBranches |-> Put(createdBranches, key(<<repo, branch, sha>>), TRUE)]

\* CreateBranch's return value and the createdBranches map it leaves.
CreateBranchResult(repo, branch, sha) ==
    IF errs.CreateBranchErr # Nil
    THEN [err |-> errs.CreateBranchErr, createdBranches |-> createdBranches]
    ELSE [err |-> Nil,
          createdBranches |-> Put(createdBranches, key(<<repo, branch, sha>>), TRUE)]

CreateBranch ==
    \E repo \in Repos, branch \in Branches, sha \in Shas :
        LET r == CreateBranchResult(repo, branch, sha)
        IN  /\ Running
            /\ r.err = Nil => writes < MaxWrites
            /\ createdBranches' = r.createdBranches
            /\ last' = Call("CreateBranch", <<repo, branch, sha>>, r.err, NilPtr)
            /\ branchCalls' = IF r.err = Nil
                              THEN branchCalls \cup {<<repo, branch, sha>>}
                              ELSE branchCalls
            /\ writes' = IF r.err = Nil THEN writes + 1 ELSE writes
            /\ UNCHANGED <<goroutines, files, updatedFiles, branchHeads, createdPullRequests,
                           errs, failed, seeded, seededHeads, prCalls>>

\* GetBranchHead's return values.
GetBranchHeadResult(repo, branch) ==
    IF Has(branchHeads, key(<<repo, branch>>))
    THEN [err |-> Nil, val |-> branchHeads[key(<<repo, branch>>)]]
    ELSE [err |-> NotFound, val |-> ""]

GetBranchHead ==
    \E repo \in Repos, branch \in Branches :
        LET r == GetBranchHeadResult(repo, branch)
        IN  /\ Running
            /\ last' = Call("GetBranchHead", <<repo, branch>>, r.err, r.val)
            /\ UNCHANGED <<goroutines, tables, errs, failed, history, writes>>

(***************************************************************************)
(* The seeding surface.                                                    *)
(***************************************************************************)
\* The files map AddFileContents leaves.
AddFileContentsResult(repo, path, ref, body) ==
    Put(files, key(<<repo, path, ref>>), body)

AddFileContents ==
    \E repo \in Repos, path \in Paths, ref \in Refs, body \in Bodies :
        /\ CanWrite
        /\ files' = AddFileContentsResult(repo, path, ref, body)
        /\ seeded' = Put(seeded, <<repo, path, ref>>, body)
        /\ last' = Call("AddFileContents", <<repo, path, ref, body>>, Nil, NilPtr)
        /\ writes' = writes + 1
        /\ UNCHANGED <<goroutines, updatedFiles, createdBranches, branchHeads,
                       createdPullRequests, errs, failed, seededHeads,
                       branchCalls, prCalls>>

\* GetUpdatedContents's return value: the zero value for a missing key.
GetUpdatedContentsResult(repo, path, ref) ==
    IF Has(updatedFiles, key(<<repo, path, ref>>))
    THEN updatedFiles[key(<<repo, path, ref>>)]
    ELSE << >>

GetUpdatedContents ==
    \E repo \in Repos, path \in UpdatePaths, ref \in Refs :
        /\ Running
        /\ last' = Call("GetUpdatedContents", <<repo, path, ref>>, Nil,
                        GetUpdatedContentsResult(repo, path, ref))
        /\ UNCHANGED <<goroutines, tables, errs, failed, history, writes>>

\* The branchHeads map AddBranchHead leaves.
AddBranchHeadResult(repo, branch, sha) ==
    Put(branchHeads, key(<<repo, branch>>), sha)

AddBranchHead ==
    \E repo \in Repos, branch \in Branches, sha \in Shas :
        /\ CanWrite
        /\ branchHeads' = AddBranchHeadResult(repo, branch, sha)
        /\ seededHeads' = Put(seededHeads, <<repo, branch>>, sha)
        /\ last' = Call("AddBranchHead", <<repo, branch, sha>>, Nil, NilPtr)
        /\ writes' = writes + 1
        /\ UNCHANGED <<goroutines, files, updatedFiles, createdBranches,
                       createdPullRequests, errs, failed, seeded,
                       branchCalls, prCalls>>

\* A test sets one of the exported override fields, or clears it.
SetOverride ==
    \E f \in DOMAIN errs, e \in ErrValues \cup {Nil} :
        /\ CanWrite
        /\ errs[f] # e
        /\ errs' = [errs EXCEPT ![f] = e]
        /\ last' = Call("SetOverride", <<f, e>>, Nil, NilPtr)
        /\ writes' = writes + 1
        /\ UNCHANGED <<goroutines, tables, failed, history>>

(***************************************************************************)
(* The assertion surface.  Each method returns (Pass) or calls t.Fatalf    *)
(* (Fatal).                                                                *)
(***************************************************************************)
Outcome(ok) == IF ok THEN Pass ELSE Fatal

\* Mutant: an assertion clears the override fields.
Assertion_ClearsOverrides(op, args, outcome) ==
    /\ Running
    /\ last' = Call(op, args, Nil, outcome)
    /\ failed' = (outcome = Fatal)
    /\ errs' = [f \in DOMAIN errs |-> Nil]
    /\ UNCHANGED <<goroutines, tables, history, writes>>

Assertion(op, args, outcome) ==
    /\ Running
    /\ last' = Call(op, args, Nil, outcome)
    /\ failed' = (outcome = Fatal)
    /\ UNCHANGED <<goroutines, tables, errs, history, writes>>

AssertBranchCreatedOutcome(repo, branch, sha) ==
    Outcome(Has(createdBranches, key(<<repo, branch, sha>>)))

AssertBranchCreated ==
    \E repo \in Repos, branch \in Branches, sha \in Shas :
        Assertion("AssertBranchCreated", <<repo, branch, sha>>,
                  AssertBranchCreatedOutcome(repo, branch, sha))

RefuteBranchCreatedOutcome(repo, branch, sha) ==
    Outcome(~Has(createdBranches, key(<<repo, branch, sha>>)))

RefuteBranchCreated ==
    \E repo \in Repos, branch \in Branches, sha \in Shas :
        Assertion("RefuteBranchCreated", <<repo, branch, sha>>,
                  RefuteBranchCreatedOutcome(repo, branch, sha))

\* range m.createdPullRequests[repo]: no element for a missing repo.
PullRequestsOf(repo) ==
    IF Has(createdPullRequests, repo) THEN createdPullRequests[repo] ELSE << >>

\* Mutant: the sequences of all repositories are searched.
PullRequestMatches_AnyRepo(repo, inp) ==
    \E r \in DOMAIN createdPullRequests :
        \E i \in 1..Len(createdPullRequests[r]) : createdPullRequests[r][i] = inp

\* Some element of the repo's sequence is reflect.DeepEqual to inp.
PullRequestMatches(repo, inp) ==
    \E i \in 1..Len(PullRequestsOf(repo)) : PullRequestsOf(repo)[i] = inp

AssertPullRequestCreatedOutcome(repo, inp) ==
    Outcome(PullRequestMatches(repo, inp))

AssertPullRequestCreated ==
    \E repo \in Repos, inp \in Inputs :
        Assertion("AssertPullRequestCreated", <<repo, inp>>,
                  AssertPullRequestCreatedOutcome(repo, inp))

RefutePullRequestCreatedOutcome(repo, inp) ==
    Outcome(~PullRequestMatches(repo, inp))

RefutePullRequestCreated ==
    \E repo \in Repos, inp \in Inputs :
        Assertion("RefutePullRequestCreated", <<repo, inp>>,
                  RefutePullRequestCreatedOutcome(repo, inp))

AssertNoBranchesCreatedOutcome ==
    Outcome(~(Cardinality(DOMAIN createdBranches) > 0))

AssertNoBranchesCreated ==
    Assertion("AssertNoBranchesCreated", << >>, AssertNoBranchesCreatedOutcome)

AssertNoPullRequestsCreatedOutcome ==
    Outcome(~(Cardinality(DOMAIN createdPullRequests) > 0))

AssertNoPullRequestsCreated ==
    Assertion("AssertNoPullRequestsCreated", << >>,
              AssertNoPullRequestsCreatedOutcome)

AssertNoInteractionsOutcome ==
    IF Cardinality(DOMAIN updatedFiles) # 0 THEN Fatal
    ELSE IF Cardinality(DOMAIN createdBranches) # 0 THEN Fatal
    ELSE IF Cardinality(DOMAIN createdPullRequests) # 0 THEN Fatal
    ELSE Pass

AssertNoInteractions ==
    Assertion("AssertNoInteractions", << >>, AssertNoInteractionsOutcome)

(***************************************************************************)
(* The specification: any serialized sequence of calls on one fixture.     *)
(***************************************************************************)
Next ==
    \/ GetFile
    \/ UpdateFile
    \/ DeleteFile
    \/ CreatePullRequest
    \/ CreateBranch
    \/ GetBranchHead
    \/ AddFileContents
    \/ GetUpdatedContents
    \/ AddBranchHead
    \/ SetOverride
    \/ AssertBranchCreated
    \/ RefuteBranchCreated
    \/ AssertPullRequestCreated
    \/ RefutePullRequestCreated
    \/ AssertNoBranchesCreated
    \/ AssertNoPullRequestsCreated
    \/ AssertNoInteractions

Spec == Init /\ [][Next]_vars

\* The override field each operation consults; GetBranchHead and DeleteFile
\* consult none.
OverrideField ==
    [GetFile |-> "GetFileErr", UpdateFile |-> "UpdateFileErr",
     CreateBranch |-> "CreateBranchErr",
     CreatePullRequest |-> "CreatePullRequestErr"]

(***************************************************************************)
(* CreatePullRequest called from two goroutines.  The method takes no lock *)
(* (the comment on the length line says so), so a call is four steps: read *)
(* the repository's slice from the map, append to the local slice, write   *)
(* the local slice back to the map, take the local slice's length.  In     *)
(* mode "serialized" the callers run one call at a time; in mode           *)
(* "concurrent" the steps interleave freely, and the runtime may stop the  *)
(* program when it detects the unsynchronised map accesses.  With two      *)
(* calls no append finds spare capacity, so no two slices share an array.  *)
(***************************************************************************)
InFlight(p) == calls[p].pc \in {"append", "write", "length"}

MayBegin(p) ==
    mode = "serialized" => \A q \in Procs \ {p} : ~InFlight(q)

\* existing, ok := m.createdPullRequests[repo]; a missing key gives an empty slice.
PRExisting(repo) ==
    IF Has(createdPullRequests, repo) THEN createdPullRequests[repo] ELSE << >>

\* Mutant: the input replaces the slice instead of extending it.
PRAppended_Replaces(existing, inp) == <<inp>>

\* existing = append(existing, inp)
PRAppended(existing, inp) == Append(existing, inp)

\* The call begins: the override is consulted and the slice is read.
PRRead(p) ==
    \E repo \in Repos, inp \in Inputs :
        /\ ~crashed
        /\ calls[p].pc = "idle"
        /\ MayBegin(p)
        /\ calls' = [calls EXCEPT ![p] =
                IF errs.CreatePullRequestErr # Nil
                THEN [pc |-> "done", repo |-> repo, inp |-> inp,
                      existing |-> << >>, number |-> 0]
                ELSE [pc |-> "append", repo |-> repo, inp |-> inp,
                      existing |-> PRExisting(repo), number |-> 0]]
        /\ UNCHANGED <<tables, errs, failed, last, history, writes, mode, crashed>>

PRAppend(p) ==
    /\ ~crashed
    /\ calls[p].pc = "append"
    /\ calls' = [calls EXCEPT ![p].pc = "write",
                              ![p].existing = PRAppended(@, calls[p].inp)]
    /\ UNCHANGED <<tables, errs, failed, last, history, writes, mode, crashed>>

\* m.createdPullRequests[repo] = existing
PRWrite(p) ==
    /\ ~crashed
    /\ calls[p].pc = "write"
    /\ createdPullRequests' =
           Put(createdPullRequests, calls[p].repo, calls[p].existing)
    /\ calls' = [calls EXCEPT ![p].pc = "length"]
    /\ UNCHANGED <<files, updatedFiles, createdBranches, branchHeads, errs,
                   failed, last, history, writes, mode, crashed>>

\* number := len(existing), and the call returns.
PRLength(p) ==
    LET number == Len(calls[p].existing)
    IN  /\ ~crashed
        /\ calls[p].pc = "length"
        /\ calls' = [calls EXCEPT ![p].pc = "done", ![p].number = number]
        /\ last' = Call("CreatePullRequest", <<calls[p].repo, calls[p].inp>>, Nil,
                        Ptr([Number |-> number, Link |-> PullRequestLink(number)]))
        /\ prCalls' = [prCalls EXCEPT ![calls[p].repo] = Append(@, calls[p].inp)]
        /\ UNCHANGED <<tables, errs, failed, seeded, seededHeads, branchCalls,
                       writes, mode, crashed>>

\* A map write that overlaps another goroutine's map access is a data race:
\* the runtime may stop the program with "concurrent map writes".
RaceCrash ==
    /\ ~crashed
    /\ mode = "concurrent"
    /\ \E p \in Procs : \E q \in Procs \ {p} :
           calls[p].pc = "write" /\ calls[q].pc \in {"idle", "write"}
    /\ crashed' = TRUE
    /\ UNCHANGED <<tables, errs, failed, last, history, writes, mode, calls>>

InitConcurrent == NewFixture /\ mode \in Modes

NextConcurrent ==
    \/ \E p \in Procs : PRRead(p)
    \/ \E p \in Procs : PRAppend(p)
    \/ \E p \in Procs : PRWrite(p)
    \/ \E p \in Procs : PRLength(p)
    \/ RaceCrash

SpecConcurrent == InitConcurrent /\ [][NextConcurrent]_vars

(***************************************************************************)
(* Properties.                                                             *)
(***************************************************************************)
NoOverrideSet == \A f \in DOMAIN errs : errs[f] = Nil
Elements(seq) == {seq[i] : i \in 1..Len(seq)}

ReadWriteOps ==
    {"GetFile", "GetBranchHead", "UpdateFile", "CreateBranch", "CreatePullRequest"}

\* C2 (as stated): every read/write operation of the contract has an override
\* of its own, and a call made while it is set returns exactly it.
C2_EveryOperationHasOverride ==
    last.op \in ReadWriteOps
        => /\ last.op \in DOMAIN OverrideField
           /\ errs[OverrideField[last.op]] # Nil
                => last.err = errs[OverrideField[last.op]]

\* C2 (amended): GetFile, UpdateFile, CreateBranch and CreatePullRequest each
\* have an override of their own: a call made while it is set returns exactly
\* it and changes none of the five tables, a call made while it is not set
\* returns no injected error whatever the other overrides are; GetBranchHead
\* has no override, and the lookup alone decides its result.
C2_OverridesPerOperation ==
    [][/\ \A op \in DOMAIN OverrideField :
             /\ (last'.op = op /\ errs[OverrideField[op]] # Nil)
                    => (last'.err = errs[OverrideField[op]] /\ UNCHANGED tables)
             /\ (last'.op = op /\ errs[OverrideField[op]] = Nil)
                    => last'.err \notin ErrValues
       /\ last'.op = "GetBranchHead"
             => last'.err = (IF Has(branchHeads, key(last'.args))
                             THEN Nil ELSE NotFound)]_vars

\* UpdateFile has returned its override while an updated file is recorded.
C2_Witness ==
    /\ last.op = "UpdateFile"
    /\ errs.UpdateFileErr # Nil
    /\ last.err = errs.UpdateFileErr
    /\ DOMAIN updatedFiles # {}

\* The <<repo, path, ref>> a GetFile call recorded in last is about.
GetFileTuple == <<last.args[1], last.args[3], last.args[2]>>

\* C3 (as stated): GetFile fails with NotFound for every tuple that no
\* AddFileContents call has seeded.
C3_NotFoundUnlessSeeded ==
    (last.op = "GetFile" /\ errs.GetFileErr = Nil
        /\ GetFileTuple \notin DOMAIN seeded)
        => last.err = NotFound

\* C4 (as stated): with no GetFile override, GetFile on a seeded tuple returns
\* the content most recently seeded for it and the hash of that content.
C4_ReturnsSeededContent ==
    (last.op = "GetFile" /\ errs.GetFileErr = Nil
        /\ GetFileTuple \in DOMAIN seeded)
        => /\ last.err = Nil
           /\ last.val = Ptr([Data |-> seeded[GetFileTuple],
                              Sha |-> bytesSha1(seeded[GetFileTuple])])

\* C5 (as stated): AssertNoInteractions passes on a new fixture and fails once
\* an UpdateFile, CreateBranch or CreatePullRequest call has occurred.
C5_NoInteractionsDetectsEveryCall ==
    /\ last.op = "New" => AssertNoInteractionsOutcome = Pass
    /\ last.op \in {"UpdateFile", "CreateBranch", "CreatePullRequest"}
          => AssertNoInteractionsOutcome = Fatal

\* What the assertion methods would do, for every argument.
AssertionOutcomes ==
    <<[a \in Repos \X Branches \X Shas |->
          <<AssertBranchCreatedOutcome(a[1], a[2], a[3]),
            RefuteBranchCreatedOutcome(a[1], a[2], a[3])>>],
      [a \in Repos \X Inputs |->
          <<AssertPullRequestCreatedOutcome(a[1], a[2]),
            RefutePullRequestCreatedOutcome(a[1], a[2])>>],
      AssertNoBranchesCreatedOutcome,
      AssertNoPullRequestsCreatedOutcome,
      AssertNoInteractionsOutcome>>

\* What the reads of seeded state would return, for every argument.
SeededReads ==
    <<[a \in Repos \X Refs \X (Paths \cup UpdatePaths) |->
          GetFileResult(a[1], a[2], a[3])],
      [a \in Repos \X Branches |-> GetBranchHeadResult(a[1], a[2])]>>

\* What GetUpdatedContents would return, for every argument.
UpdatedReads ==
    [a \in Repos \X (Paths \cup UpdatePaths) \X Refs |->
        GetUpdatedContentsResult(a[1], a[2], a[3])]

\* C6: an UpdateFile, CreateBranch or CreatePullRequest call changes the
\* result of no GetFile or GetBranchHead call, and an AddFileContents or
\* AddBranchHead call changes neither the result of GetUpdatedContents nor
\* the outcome of any assertion method.
C6_ReadsAndWritesSeparate ==
    [][/\ last'.op \in {"UpdateFile", "CreateBranch", "CreatePullRequest"}
             => SeededReads' = SeededReads
       /\ last'.op \in {"AddFileContents", "AddBranchHead"}
             => (UpdatedReads' = UpdatedReads
                   /\ AssertionOutcomes' = AssertionOutcomes)]_vars

\* UpdateFile has written, under the key of a seeded file, a content other
\* than the seeded one.
C6_Witness ==
    /\ last.op = "UpdateFile"
    /\ last.err = Nil
    /\ Has(files, key(<<last.args[1], last.args[3], last.args[2]>>))
    /\ files[key(<<last.args[1], last.args[3], last.args[2]>>)] # last.args[5]

\* C7: an UpdateFile call made with no override set succeeds for every
\* previousSHA, and GetUpdatedContents on its (repo, path, branch) then
\* returns the content it was given, whatever was recorded before.
C7_UpdateThenLookup ==
    (last.op = "UpdateFile" /\ errs.UpdateFileErr = Nil)
        => /\ last.err = Nil
           /\ GetUpdatedContentsResult(last.args[1], last.args[3], last.args[2])
                 = last.args[5]

\* The second of two UpdateFile calls on one key has returned, given a
\* previousSHA that is the revision of nothing.
C7_Witness ==
    /\ last.op = "UpdateFile"
    /\ last.err = Nil
    /\ last.args[4] = "wrongsha"
    /\ writes = 2
    /\ Cardinality(DOMAIN updatedFiles) = 1
    /\ DOMAIN files = {} /\ DOMAIN createdBranches = {}
    /\ DOMAIN branchHeads = {} /\ DOMAIN createdPullRequests = {}
    /\ NoOverrideSet

\* C8: DeleteFile fails with the "unsupported" condition for every argument
\* and in every state, and changes none of the five tables.
C8_DeleteFileUnsupported ==
    [][last'.op = "DeleteFile"
          => (last'.err = ErrNotSupported /\ UNCHANGED tables)]_vars

\* DeleteFile has returned while an override is set and a table is not empty.
C8_Witness ==
    /\ last.op = "DeleteFile"
    /\ ~NoOverrideSet
    /\ \E i \in 1..5 : DOMAIN tables[i] # {}

\* C9: a CreateBranch call made with no override set succeeds, after it
\* AssertBranchCreated passes and RefuteBranchCreated fails for its
\* arguments, and a call that repeats the arguments of an earlier successful
\* call changes none of the five tables (the key keeps its one entry).
C9_CreateBranchIdempotent ==
    [][(last'.op = "CreateBranch" /\ errs.CreateBranchErr = Nil)
          => /\ last'.err = Nil
             /\ (AssertBranchCreatedOutcome(last.args[1], last.args[2],
                                            last.args[3]) = Pass)'
             /\ (RefuteBranchCreatedOutcome(last.args[1], last.args[2],
                                            last.args[3]) = Fatal)'
             /\ last'.args \in branchCalls => UNCHANGED tables]_vars

\* The second of two CreateBranch calls with the same arguments has returned.
C9_Witness ==
    /\ last.op = "CreateBranch"
    /\ last.err = Nil
    /\ writes = 2
    /\ Cardinality(branchCalls) = 1
    /\ Cardinality(DOMAIN createdBranches) = 1
    /\ DOMAIN files = {} /\ DOMAIN updatedFiles = {}
    /\ DOMAIN branchHeads = {} /\ DOMAIN createdPullRequests = {}
    /\ NoOverrideSet

\* C10: AssertPullRequestCreated(repo, inp) passes exactly when an earlier
\* successful CreatePullRequest on that repo submitted an equal input, at any
\* position, and RefutePullRequestCreated(repo, inp) fails in exactly those
\* states; a pull request of another repo does not count.
C10_PullRequestAssertions ==
    /\ \A repo \in Repos, inp \in Inputs :
          /\ (AssertPullRequestCreatedOutcome(repo, inp) = Pass)
                <=> inp \in Elements(prCalls[repo])
          /\ (RefutePullRequestCreatedOutcome(repo, inp) = Fatal)
                <=> inp \in Elements(prCalls[repo])
    /\ last.op = "AssertPullRequestCreated"
          => ((last.val = Pass) <=> last.args[2] \in Elements(prCalls[last.args[1]]))
    /\ last.op = "RefutePullRequestCreated"
          => ((last.val = Fatal) <=> last.args[2] \in Elements(prCalls[last.args[1]]))

\* AssertPullRequestCreated has passed on the second pull request of a repo
\* while another repo holds no pull request.
C10_Witness ==
    /\ last.op = "AssertPullRequestCreated"
    /\ last.val = Pass
    /\ Len(prCalls[last.args[1]]) = 2
    /\ prCalls[last.args[1]][2] = last.args[2]
    /\ prCalls[last.args[1]][1] # last.args[2]


\* The two calls have returned for one repository, and they report the same
\* pull request number or the repository's slice lacks one of their inputs.
RaceVisible ==
    \E p \in Procs : \E q \in Procs \ {p} :
        /\ calls[p].pc = "done" /\ calls[q].pc = "done"
        /\ calls[p].repo = calls[q].repo
        /\ \/ calls[p].number = calls[q].number
           \/ ~ \E i, j \in 1..Len(PRExisting(calls[p].repo)) :
                    /\ i # j
                    /\ PRExisting(calls[p].repo)[i] = calls[p].inp
                    /\ PRExisting(calls[p].repo)[j] = calls[q].inp

\* C11: two CreatePullRequest calls for one repository that are serialized
\* never return the same number and never lose an input; the slice is then
\* the inputs in the order the calls returned.  (Interleaved without
\* exclusion they can do both: C11_Witness.)
C11_SerializedCallsDoNotRace ==
    mode = "serialized" =>
        /\ ~RaceVisible
        /\ (\A p \in Procs : ~InFlight(p)) =>
               \A r \in Repos : PRExisting(r) = prCalls[r]

\* Interleaved, both calls returned number 1 and only one input is recorded.
C11_Witness ==
    /\ mode = "concurrent"
    /\ ~crashed
    /\ \E p \in Procs : \E q \in Procs \ {p} :
        /\ calls[p].pc = "done" /\ calls[q].pc = "done"
        /\ calls[p].repo = calls[q].repo
        /\ calls[p].inp # calls[q].inp
        /\ calls[p].number = calls[q].number
        /\ Len(PRExisting(calls[p].repo)) = 1


\* The <<repo, branch>> a GetBranchHead call recorded in last is about.
BranchHeadPair == <<last.args[1], last.args[2]>>

\* C12 (as stated): GetBranchHead returns the revision most recently seeded
\* with AddBranchHead for exactly that (repo, branch), and NotFound when no
\* AddBranchHead seeded exactly that pair; CreateBranch seeds nothing.
C12_BranchHeadExactPair ==
    last.op = "GetBranchHead"
        => IF BranchHeadPair \in DOMAIN seededHeads
           THEN last.err = Nil /\ last.val = seededHeads[BranchHeadPair]
           ELSE last.err = NotFound

\* C13: every repository's sequence is the inputs of its successful
\* CreatePullRequest calls in call order (so a call adds its input at the end
\* and touches nothing else), only such repositories are in the map, and the
\* call returns the resulting length as the number and in the link.
C13_SequenceIsCallHistory ==
    /\ \A repo \in Repos : PullRequestsOf(repo) = prCalls[repo]
    /\ DOMAIN createdPullRequests = {repo \in Repos : prCalls[repo] # << >>}
    /\ (last.op = "CreatePullRequest" /\ last.err = Nil)
          => LET seq == PullRequestsOf(last.args[1])
             IN  /\ Len(seq) >= 1
                 /\ seq[Len(seq)] = last.args[2]
                 /\ last.val[1].Number = Len(seq)
                 /\ last.val[1].Link = PullRequestLink(Len(seq))

\* A repository's second pull request, with an input other than the first,
\* has been created while the other repository has none.
C13_Witness ==
    /\ last.op = "CreatePullRequest"
    /\ last.err = Nil
    /\ Len(PullRequestsOf(last.args[1])) = 2
    /\ PullRequestsOf(last.args[1])[1] # last.args[2]
    /\ last.val[1].Link = "https://example.com/pull-request/2"
    /\ \A repo \in Repos \ {last.args[1]} : ~Has(createdPullRequests, repo)

\* C14 (as stated): AssertBranchCreated passes only for a triple that a
\* successful CreateBranch was called with, and RefuteBranchCreated passes
\* for every triple that no successful CreateBranch was called with.
C14_BranchAssertionsExactTriple ==
    /\ (last.op = "AssertBranchCreated" /\ last.val = Pass)
          => last.args \in branchCalls
    /\ (last.op = "RefuteBranchCreated" /\ last.args \notin branchCalls)
          => last.val = Pass

\* The number of pull requests recorded over all repositories is zero.
NoPullRequestRecorded == \A repo \in Repos : Len(PullRequestsOf(repo)) = 0

\* C15: a repository in createdPullRequests has a non-empty sequence, so
\* AssertNoPullRequestsCreated passes exactly when no pull request is
\* recorded; AssertNoBranchesCreated passes exactly when no CreateBranch has
\* succeeded.
C15_NoneCreatedAssertions ==
    /\ \A repo \in DOMAIN createdPullRequests :
          Len(createdPullRequests[repo]) > 0
    /\ (AssertNoPullRequestsCreatedOutcome = Pass) <=> NoPullRequestRecorded
    /\ (AssertNoBranchesCreatedOutcome = Pass) <=> (branchCalls = {})
    /\ last.op = "AssertNoPullRequestsCreated"
          => ((last.val = Pass) <=> NoPullRequestRecorded)
    /\ last.op = "AssertNoBranchesCreated"
          => ((last.val = Pass) <=> (branchCalls = {}))

\* AssertNoPullRequestsCreated has passed after a CreatePullRequest call that
\* its override turned into an error, and after a CreateBranch that succeeded.
C15_Witness ==
    /\ last.op = "AssertNoPullRequestsCreated"
    /\ last.val = Pass
    /\ errs.CreatePullRequestErr # Nil
    /\ branchCalls # {}
    /\ AssertNoBranchesCreatedOutcome = Fatal


IsPrefix(s, t) == Len(s) <= Len(t) /\ \A i \in 1..Len(s) : s[i] = t[i]

\* C16: no call removes a key of updatedFiles or createdBranches or shortens
\* or rewrites a repository's pull request sequence; so a failing
\* AssertNoInteractions keeps failing, and an AssertBranchCreated or
\* AssertPullRequestCreated that passes keeps passing, after every call.
\* (The outcomes are functions of the tables, so only a step that changes a
\* table can change one.)
C16_ObservationsOnlyGrow ==
    [][ \/ UNCHANGED tables
        \/ /\ DOMAIN updatedFiles \subseteq DOMAIN updatedFiles'
           /\ DOMAIN createdBranches \subseteq DOMAIN createdBranches'
           /\ \A repo \in Repos :
                 IsPrefix(PullRequestsOf(repo), PullRequestsOf(repo)')
           /\ (AssertNoInteractionsOutcome = Fatal)
                 => (AssertNoInteractionsOutcome' = Fatal)
           /\ \A repo \in Repos, branch \in Branches, sha \in Shas :
                 (AssertBranchCreatedOutcome(repo, branch, sha) = Pass)
                    => (AssertBranchCreatedOutcome(repo, branch, sha)' = Pass)
           /\ \A repo \in Repos, inp \in Inputs :
                 (AssertPullRequestCreatedOutcome(repo, inp) = Pass)
                    => (AssertPullRequestCreatedOutcome(repo, inp)' = Pass)
      ]_vars

\* AssertBranchCreated has passed in a state that also holds an updated file:
\* two write observations were recorded and neither displaced the other.
C16_Witness ==
    /\ last.op = "AssertBranchCreated"
    /\ last.val = Pass
    /\ DOMAIN updatedFiles # {}
    /\ branchCalls # {}
    /\ AssertNoInteractionsOutcome = Fatal

\* The operations that only look at the fixture.
QueryOps ==
    {"GetFile", "GetBranchHead", "GetUpdatedContents",
     "AssertBranchCreated", "RefuteBranchCreated",
     "AssertPullRequestCreated", "RefutePullRequestCreated",
     "AssertNoBranchesCreated", "AssertNoPullRequestsCreated",
     "AssertNoInteractions"}

====
